---- MODULE Spec2Model ----
(***************************************************************************)
(* The review API of rate-lowry (src/unnamed/part_001: POST / DELETE of    *)
(* reviews, the in-memory write buffer and its batch flusher) and the      *)
(* cached aggregation read path (src/pages/api/foodItems.js), over one     *)
(* document collection 'reviews'.                                          *)
(*                                                                         *)
(* One step of the model is one uninterrupted run of the Node event loop:  *)
(* the synchronous code between two awaits.  A database call takes effect  *)
(* and resumes its caller in one step (InsertOneOK, InsertManyOK, ...).    *)
(* Time is counted in minutes.                                             *)
(***************************************************************************)
EXTENDS Integers, Sequences, FiniteSets, TLC

\* ------------------------------------------------------------ bounds
\* submissions that arrive during a run
MaxReq == 2
\* requests already waiting in the write buffer when a buffered run starts
MaxPre == 11
\* minutes the clock is followed for, from 0 and again from the TTL
MaxTime == 1
\* food-items reads in a run
MaxRead == 2

\* ------------------------------------------------- program constants
BATCH_SIZE == 10
\* CACHE_TTL = 5 * 60 * 1000 ms, in minutes
CACHE_TTL == 5
\* .limit(50) of the review listing (part_001:112)
LIMIT == 50

\* ------------------------------------------------------- JS values
\* an optional value: None (undefined / field absent) or Some(v)
None == << >>
Some(v) == << v >>
Val(o) == o[1]

\* a body field that was not sent (undefined), and JS null
Missing == "<undefined>"
Null == "<null>"

\* !x for the string fields of a body
FalsyStr(s) == s \in {Missing, Null, ""}
\* !rating : undefined or 0
FalsyRating(o) == o = None \/ Val(o) = 0

\* ----------------------------------------------------------- inputs
Body(f, s, r, c, w, i) ==
    [foodItem |-> f, station |-> s, rating |-> r, comment |-> c,
     reviewer |-> w, imageUrl |-> i]

ValidBodies ==
    { Body("Burger", "Grill", Some(5), "good", Missing, Missing),
      Body("Pizza", "Deli", Some(1), "cold", "Ann", "img1") }

InvalidBodies ==
    { Body(Missing, "Grill", Some(5), "good", Missing, Missing),
      Body("Burger", "", Some(5), "good", Missing, Missing),
      Body("Burger", "Grill", None, "good", Missing, Missing),
      Body("Burger", "Grill", Some(3), Missing, "Ann", "img1"),
      Body("Burger", "Grill", Some(0), "good", Missing, Missing),
      Body("Burger", "Grill", Some(6), "good", Missing, Missing) }

Bodies == ValidBodies \cup InvalidBodies

\* the body a request that is already buffered at the start was sent with
PreBody(r) ==
    IF r % 2 = 1
    THEN Body("Burger", "Grill", Some(5), "good", Missing, Missing)
    ELSE Body("Pizza", "Deli", Some(1), "cold", "Ann", "img1")

VARIABLES
    store,            \* the 'reviews' collection: a sequence of documents
    nextId,           \* the next fresh _id
    now,              \* Date.now(), in minutes
    post,             \* the POST requests: slot -> [pc, body, review, resp]
    reviewQueue,      \* the write buffer: slots in arrival order
    processingQueue,  \* the flusher's guard flag
    flushpc,          \* where processReviewQueue is: idle, connecting, inserting
    batch,            \* the batch whose insertMany is in flight
    delResp,          \* the response to the last DELETE
    insertFailed,     \* history: some insertOne / insertMany has rejected
    cache,            \* the food-items cache: key -> None or Some([data, expiry])
    reads,            \* the food-items GET requests in flight: slot -> its state
    sent,             \* the last food-items response sent, with its request
    firstFill,        \* history: key -> data of the earliest fill within the TTL
    nodeEnv,          \* process.env.NODE_ENV
    clearResp,        \* the response to the last bulk-clear request
    listResp,         \* the response to the last listing (GET reviews) request
    startedBy         \* history: who called the flush that last started

vars == << store, nextId, now, post, reviewQueue, processingQueue, flushpc,
           batch, delResp, insertFailed, cache, reads, sent, firstFill, nodeEnv,
           clearResp, listResp, startedBy >>

foodVars == << cache, reads, sent, firstFill >>

adminVars == << nodeEnv, clearResp, listResp >>

histVars == << startedBy >>

Slots == DOMAIN post
Range(q) == { q[i] : i \in 1..Len(q) }

\* ------------------------------------------------- the POST handler
\* part_001:120 and :125
MissingRequired(b) ==
    FalsyStr(b.foodItem) \/ FalsyStr(b.station) \/ FalsyRating(b.rating)
        \/ FalsyStr(b.comment)

\* mutant: the upper limit is off by one
RatingOutOfRange_UpTo6(b) == Val(b.rating) < 1 \/ Val(b.rating) > 6

RatingOutOfRange(b) == Val(b.rating) < 1 \/ Val(b.rating) > 5

\* mutant: the reviewer default is not applied
newReview_NoDefault(b, t) ==
    [foodItem |-> b.foodItem, station |-> b.station, rating |-> Val(b.rating),
     comment |-> b.comment, reviewer |-> b.reviewer,
     imageUrl |-> IF b.imageUrl = Missing THEN Null ELSE b.imageUrl,
     createdAt |-> t, isActive |-> TRUE]

\* part_001:117 and :129-138
newReview(b, t) ==
    [foodItem |-> b.foodItem, station |-> b.station, rating |-> Val(b.rating),
     comment |-> b.comment,
     reviewer |-> IF b.reviewer = Missing THEN "Anonymous" ELSE b.reviewer,
     imageUrl |-> IF b.imageUrl = Missing THEN Null ELSE b.imageUrl,
     createdAt |-> t, isActive |-> TRUE]

\* the document the collection stores for a review inserted with _id = id
Doc(rv, id) ==
    [_id |-> id, foodItem |-> rv.foodItem, station |-> rv.station,
     rating |-> rv.rating, comment |-> rv.comment, reviewer |-> rv.reviewer,
     imageUrl |-> rv.imageUrl, createdAt |-> rv.createdAt,
     isActive |-> Some(rv.isActive), deletedAt |-> None]

Resp(st, ok, id, err) ==
    [status |-> st, success |-> ok, reviewId |-> id, error |-> err]

\* a request slot: pc is idle (not yet arrived), inserting (awaiting insertOne,
\* part_001:163), waiting (awaiting its callback, part_001:159) or done; the pc
\* it was suspended at stays in `via` once it is done
Idle == [pc |-> "idle", via |-> "", body |-> None, review |-> None, resp |-> None]

Pending(pc, b, t) ==
    [pc |-> pc, via |-> pc, body |-> Some(b), review |-> Some(newReview(b, t)),
     resp |-> None]

Answer(r, b, rv, resp) ==
    [post EXCEPT ![r] = [pc |-> "done", via |-> "", body |-> Some(b),
                         review |-> rv, resp |-> Some(resp)]]

\* the guard looks at the buffer only
ProcessReviewQueueStart_NoGuard(q) ==
    IF Len(q) = 0
    THEN UNCHANGED << processingQueue, flushpc >>
    ELSE processingQueue' = TRUE /\ flushpc' = "connecting"

\* processReviewQueue up to its first await, called with the buffer q
ProcessReviewQueueStart(q) ==
    IF processingQueue \/ Len(q) = 0
    THEN UNCHANGED << processingQueue, flushpc >>
    ELSE processingQueue' = TRUE /\ flushpc' = "connecting"

\* every submission is buffered
isPeakTime_Always(q) == TRUE

\* a running flush counts as peak time too
isPeakTime_Busy(q) == Len(q) > 0 \/ processingQueue

\* isPeakTime = reviewQueue.length > 0
isPeakTime(q) == Len(q) > 0

\* the request goes to the head of the buffer
push_Front(q, r) == << r >> \o q

\* reviewQueue.push({...newReview, callback})
push(q, r) == Append(q, r)

\* the flush starts only once the buffer is over a full batch
StartNow_Over(q) == ~processingQueue /\ Len(q) > BATCH_SIZE

\* !processingQueue && reviewQueue.length >= BATCH_SIZE
StartNow(q) == ~processingQueue /\ Len(q) >= BATCH_SIZE

\* who started a flush in this step, if one started
Starter(who) ==
    IF processingQueue' /\ ~processingQueue THEN who ELSE startedBy

PostHandle(r, b) ==
    /\ post[r].pc = "idle"
    /\ \A q \in Slots : q < r => post[q].pc # "idle"
    /\ IF MissingRequired(b)
       THEN /\ post' = Answer(r, b, None, Resp(400, None, None,
                    "Food item, station, rating, and comment are required"))
            /\ UNCHANGED << reviewQueue, processingQueue, flushpc >>
       ELSE IF RatingOutOfRange(b)
       THEN /\ post' = Answer(r, b, None, Resp(400, None, None,
                    "Rating must be between 1 and 5"))
            /\ UNCHANGED << reviewQueue, processingQueue, flushpc >>
       ELSE IF isPeakTime(reviewQueue)
       THEN /\ reviewQueue' = push(reviewQueue, r)
            /\ post' = [post EXCEPT ![r] = Pending("waiting", b, now)]
            /\ IF StartNow(reviewQueue')
               THEN ProcessReviewQueueStart(reviewQueue')
               ELSE UNCHANGED << processingQueue, flushpc >>
       ELSE /\ post' = [post EXCEPT ![r] = Pending("inserting", b, now)]
            /\ UNCHANGED << reviewQueue, processingQueue, flushpc >>
    /\ startedBy' = Starter("handler")
    /\ UNCHANGED foodVars
    /\ UNCHANGED adminVars
    /\ UNCHANGED << store, nextId, now, batch, delResp, insertFailed >>

InsertOneOK(r) ==
    /\ post[r].pc = "inserting"
    /\ store' = Append(store, Doc(Val(post[r].review), nextId))
    /\ nextId' = nextId + 1
    /\ post' = [post EXCEPT ![r].pc = "done",
                            ![r].resp = Some(Resp(201, Some(TRUE), Some(nextId), ""))]
    /\ UNCHANGED foodVars
    /\ UNCHANGED adminVars
    /\ UNCHANGED histVars
    /\ UNCHANGED << now, reviewQueue, processingQueue, flushpc, batch, delResp,
                    insertFailed >>

\* insertOne rejects: the handler's catch answers 500
InsertOneFail(r) ==
    /\ post[r].pc = "inserting"
    /\ post' = [post EXCEPT ![r].pc = "done",
                            ![r].resp = Some(Resp(500, None, None, "An error occurred"))]
    /\ insertFailed' = TRUE
    /\ UNCHANGED foodVars
    /\ UNCHANGED adminVars
    /\ UNCHANGED histVars
    /\ UNCHANGED << store, nextId, now, reviewQueue, processingQueue, flushpc,
                    batch, delResp >>

\* ------------------------------------------------------ the flusher
\* setInterval(processReviewQueue, QUEUE_PROCESS_INTERVAL)
TimerTick ==
    /\ ProcessReviewQueueStart(reviewQueue)
    /\ startedBy' = Starter("timer")
    /\ UNCHANGED foodVars
    /\ UNCHANGED adminVars
    /\ UNCHANGED << store, nextId, now, post, reviewQueue, batch, delResp,
                    insertFailed >>

\* the whole buffer goes into one batch
SpliceHead_All(q) == q

\* reviewQueue.splice(0, Math.min(BATCH_SIZE, reviewQueue.length))
SpliceHead(q) == SubSeq(q, 1, IF BATCH_SIZE < Len(q) THEN BATCH_SIZE ELSE Len(q))

\* the batch stays in the buffer
SpliceRest_Keep(q) == q

\* what splice leaves in reviewQueue
SpliceRest(q) == SubSeq(q, Len(SpliceHead(q)) + 1, Len(q))

\* mutant: the last review of the batch is left out of the insert
reviewsToInsert_DropLast(b, first) ==
    [i \in 1..(Len(b) - 1) |->
        Doc([Val(post[b[i]].review) EXCEPT !.isActive = TRUE], first + i - 1)]

\* batch.map(review => ({...review, createdAt: review.createdAt || new Date(),
\*                       isActive: true})), with the _id insertMany gives it
reviewsToInsert(b, first) ==
    [i \in 1..Len(b) |->
        Doc([Val(post[b[i]].review) EXCEPT !.isActive = TRUE], first + i - 1)]

\* the callback of the request in slot r resolves its handler, which answers 201
Callback(p, r, result) ==
    [p EXCEPT ![r].pc = "done", ![r].resp = Some(result)]

\* every callback gets the id of the first record of the batch
insertedId_First(first, i) == first

\* Object.values(result.insertedIds)[index], for the i-th request of the batch
insertedId(first, i) == first + i - 1

RECURSIVE NotifySuccess(_, _, _, _)
NotifySuccess(p, b, i, first) ==
    IF i > Len(b) THEN p
    ELSE NotifySuccess(
            Callback(p, b[i], Resp(201, Some(TRUE), Some(insertedId(first, i)), "")),
            b, i + 1, first)

RECURSIVE NotifyFailure(_, _, _)
NotifyFailure(p, q, i) ==
    IF i > Len(q) THEN p
    ELSE NotifyFailure(
            Callback(p, q[i], Resp(201, Some(FALSE), None, "Failed to process review")),
            q, i + 1)

\* the client promise resolves and the loop takes its first batch
FlushConnected ==
    /\ flushpc = "connecting"
    /\ batch' = SpliceHead(reviewQueue)
    /\ reviewQueue' = SpliceRest(reviewQueue)
    /\ flushpc' = "inserting"
    /\ UNCHANGED foodVars
    /\ UNCHANGED adminVars
    /\ UNCHANGED histVars
    /\ UNCHANGED << store, nextId, now, post, processingQueue, delResp,
                    insertFailed >>

\* insertMany resolves: the callbacks of the batch, then the next batch or the end
InsertManyOK ==
    /\ flushpc = "inserting"
    /\ store' = store \o reviewsToInsert(batch, nextId)
    /\ nextId' = nextId + Len(batch)
    /\ post' = NotifySuccess(post, batch, 1, nextId)
    /\ IF Len(reviewQueue) > 0
       THEN /\ batch' = SpliceHead(reviewQueue)
            /\ reviewQueue' = SpliceRest(reviewQueue)
            /\ UNCHANGED << processingQueue, flushpc >>
       ELSE /\ batch' = << >>
            /\ processingQueue' = FALSE
            /\ flushpc' = "idle"
            /\ UNCHANGED reviewQueue
    /\ UNCHANGED foodVars
    /\ UNCHANGED adminVars
    /\ UNCHANGED histVars
    /\ UNCHANGED << now, delResp, insertFailed >>

\* the failing batch goes back into the buffer to be tried again
InsertManyFail_Requeue(k) ==
    /\ flushpc = "inserting"
    /\ k \in 0..(Len(batch) - 1)
    /\ store' = store \o SubSeq(reviewsToInsert(batch, nextId), 1, k)
    /\ nextId' = nextId + Len(batch)
    /\ post' = NotifyFailure(post, reviewQueue, 1)
    /\ reviewQueue' = batch
    /\ batch' = << >>
    /\ processingQueue' = FALSE
    /\ flushpc' = "idle"
    /\ insertFailed' = TRUE
    /\ UNCHANGED foodVars
    /\ UNCHANGED adminVars
    /\ UNCHANGED histVars
    /\ UNCHANGED << now, delResp >>

\* insertMany rejects after storing the first k documents of the batch (an ordered
\* bulk write stops at its first error): catch, then finally
InsertManyFail(k) ==
    /\ flushpc = "inserting"
    /\ k \in 0..(Len(batch) - 1)
    /\ store' = store \o SubSeq(reviewsToInsert(batch, nextId), 1, k)
    /\ nextId' = nextId + Len(batch)
    /\ post' = NotifyFailure(post, reviewQueue, 1)
    /\ reviewQueue' = << >>
    /\ batch' = << >>
    /\ processingQueue' = FALSE
    /\ flushpc' = "idle"
    /\ insertFailed' = TRUE
    /\ UNCHANGED foodVars
    /\ UNCHANGED adminVars
    /\ UNCHANGED histVars
    /\ UNCHANGED << now, delResp >>

\* ----------------------------------------------- the DELETE handler
StoreIds == { store[i]._id : i \in 1..Len(store) }

\* the update also blanks the comment
SoftDelete_ClearComment(d, t) ==
    [d EXCEPT !.isActive = Some(FALSE), !.deletedAt = Some(t), !.comment = ""]

\* deleting a soft-deleted review brings it back
SoftDelete_Toggle(d, t) ==
    IF d.isActive = Some(FALSE)
    THEN [d EXCEPT !.isActive = Some(TRUE), !.deletedAt = Some(t)]
    ELSE [d EXCEPT !.isActive = Some(FALSE), !.deletedAt = Some(t)]

\* updateOne({_id}, {$set: {isActive: false, deletedAt: new Date()}})
SoftDelete(d, t) == [d EXCEPT !.isActive = Some(FALSE), !.deletedAt = Some(t)]

\* mutant: the document is removed instead of flagged
UpdateOne_Remove(s, id, t) == SelectSeq(s, LAMBDA d : d._id # id)

UpdateOne(s, id, t) ==
    [i \in 1..Len(s) |-> IF s[i]._id = id THEN SoftDelete(s[i], t) ELSE s[i]]

DeleteReview(id) ==
    /\ store' = UpdateOne(store, id, now)
    /\ delResp' = IF id \in StoreIds
                  THEN [id |-> Some(id), status |-> 200]
                  ELSE [id |-> Some(id), status |-> 404]
    /\ UNCHANGED foodVars
    /\ UNCHANGED adminVars
    /\ UNCHANGED histVars
    /\ UNCHANGED << nextId, now, post, reviewQueue, processingQueue, flushpc, batch,
                    insertFailed >>

\* DELETE without ?id=
DeleteNoId ==
    /\ delResp' = [id |-> None, status |-> 400]
    /\ UNCHANGED foodVars
    /\ UNCHANGED adminVars
    /\ UNCHANGED histVars
    /\ UNCHANGED << store, nextId, now, post, reviewQueue, processingQueue,
                    flushpc, batch, insertFailed >>

\* an ?id= that is not the 24 hex characters of an ObjectId
BadId == -1

\* new ObjectId(id): the ObjectId, or None when the constructor throws
ObjectId(id) == IF id = BadId THEN None ELSE Some(id)

\* DELETE with a malformed id: new ObjectId(id) throws before the update is
\* issued and the handler's catch answers 500
DeleteBadId ==
    /\ ObjectId(BadId) = None
    /\ delResp' = [id |-> Some(BadId), status |-> 500]
    /\ UNCHANGED foodVars
    /\ UNCHANGED adminVars
    /\ UNCHANGED histVars
    /\ UNCHANGED << store, nextId, now, post, reviewQueue, processingQueue,
                    flushpc, batch, insertFailed >>

\* ------------------------------------------ the listing handler (GET)
\* ?foodItem=, ?station= and ?fields= values of a listing request
FoodItemParams == { Missing, "Burger" }
FieldsParams == { Missing, "rating" }

\* the query without its isActive condition
ListMatches_All(d, f, st) ==
    /\ ~FalsyStr(f) => d.foodItem = f
    /\ ~FalsyStr(st) => d.station = st

\* { isActive: { $ne: false } }, foodItem and station when given
ListMatches(d, f, st) ==
    /\ d.isActive # Some(FALSE)
    /\ ~FalsyStr(f) => d.foodItem = f
    /\ ~FalsyStr(st) => d.station = st

\* oldest first
Before_Ascending(d, e, tie) ==
    \/ d.createdAt < e.createdAt
    \/ d.createdAt = e.createdAt /\ (IF tie THEN d._id < e._id ELSE d._id > e._id)

\* .sort({ createdAt: -1 }): document d comes before document e; documents
\* of one instant come in either order of insertion (tie)
Before(d, e, tie) ==
    \/ d.createdAt > e.createdAt
    \/ d.createdAt = e.createdAt /\ (IF tie THEN d._id < e._id ELSE d._id > e._id)

\* .project(projection): the default projection, or the requested field; _id
\* is always included
Project(d, fields) ==
    IF FalsyStr(fields)
    THEN [_id |-> d._id, foodItem |-> d.foodItem, station |-> d.station,
          rating |-> d.rating, comment |-> d.comment, reviewer |-> d.reviewer,
          createdAt |-> d.createdAt]
    ELSE [_id |-> d._id, rating |-> d.rating]

ProjectAll(q, fields) == [k \in 1..Len(q) |-> Project(q[k], fields)]

\* .limit(k)
Limit(q, k) == SubSeq(q, 1, IF k < Len(q) THEN k ELSE Len(q))

\* find(query).project(projection).sort({ createdAt: -1 }).limit(k)
SortLimit(s, f, st, k, tie, fields) ==
    ProjectAll(
        Limit(SortSeq(SelectSeq(s, LAMBDA d : ListMatches(d, f, st)),
                      LAMBDA d, e : Before(d, e, tie)), k),
        fields)

ListResp(st, f, station, fields, reviews) ==
    [status |-> st, foodItem |-> f, station |-> station, fields |-> fields,
     reviews |-> reviews, at |-> now]

\* GET: 400 without a filter, else find / project / sort / limit and 200
ListReviews(f, st, fields, tie) ==
    /\ IF FalsyStr(f) /\ FalsyStr(st)
       THEN listResp' = Some(ListResp(400, f, st, fields, << >>))
       ELSE listResp' = Some(ListResp(200, f, st, fields,
                                 SortLimit(store, f, st, LIMIT, tie, fields)))
    /\ UNCHANGED foodVars
    /\ UNCHANGED << nodeEnv, clearResp >>
    /\ UNCHANGED histVars
    /\ UNCHANGED << store, nextId, now, post, reviewQueue, processingQueue,
                    flushpc, batch, delResp, insertFailed >>

\* the find rejects: the handler's catch answers 500
ListReviewsFail(f, st, fields) ==
    /\ listResp' = Some(ListResp(500, f, st, fields, << >>))
    /\ UNCHANGED foodVars
    /\ UNCHANGED << nodeEnv, clearResp >>
    /\ UNCHANGED histVars
    /\ UNCHANGED << store, nextId, now, post, reviewQueue, processingQueue,
                    flushpc, batch, delResp, insertFailed >>

\* ------------------------------------ the bulk-clear handler (clearReviews)
Methods == { "DELETE", "GET" }

\* any method but DELETE is answered 405; DELETE runs deleteMany({}) and
\* answers 200 with the number of documents removed
ClearReviews(m) ==
    /\ IF m # "DELETE"
       THEN /\ clearResp' = Some([status |-> 405, deletedCount |-> 0])
            /\ UNCHANGED store
       ELSE /\ store' = << >>
            /\ clearResp' = Some([status |-> 200, deletedCount |-> Len(store)])
    /\ UNCHANGED foodVars
    /\ UNCHANGED << nodeEnv, listResp >>
    /\ UNCHANGED histVars
    /\ UNCHANGED << nextId, now, post, reviewQueue, processingQueue, flushpc,
                    batch, delResp, insertFailed >>

\* deleteMany rejects: the handler's catch answers 500
ClearReviewsFail ==
    /\ clearResp' = Some([status |-> 500, deletedCount |-> 0])
    /\ UNCHANGED foodVars
    /\ UNCHANGED << nodeEnv, listResp >>
    /\ UNCHANGED histVars
    /\ UNCHANGED << store, nextId, now, post, reviewQueue, processingQueue,
                    flushpc, batch, delResp, insertFailed >>

\* ------------------------------------------------------------ clock
\* the clock moves on to the next of the instants T
Tick(T) ==
    /\ \E t \in T : t > now
    /\ now' = CHOOSE t \in T : t > now /\ \A u \in T : u > now => t <= u
    /\ UNCHANGED foodVars
    /\ UNCHANGED adminVars
    /\ UNCHANGED histVars
    /\ UNCHANGED << store, nextId, post, reviewQueue, processingQueue, flushpc,
                    batch, delResp, insertFailed >>

\* ------------------------------------ the food-items handler (GET)
\* ?station= values of a request: none, or a station
StationParams == { Missing, "Grill" }

\* `foodItems_${station || 'all'}`, without the prefix
cacheKey(station) == IF FalsyStr(station) THEN "all" ELSE station

CacheKeys == { cacheKey(p) : p \in StationParams }

\* the same query without its isActive condition
Matches_All(d, station) ==
    (~FalsyStr(station) /\ station # "all") => d.station = station

\* { isActive: { $ne: false } }, and station when one is given and is not 'all'
Matches(d, station) ==
    /\ d.isActive # Some(FALSE)
    /\ (~FalsyStr(station) /\ station # "all") => d.station = station

Matched(s, station) == { i \in 1..Len(s) : Matches(s[i], station) }

\* $group: { _id: { foodItem, station } }
GroupIds(s, station) ==
    { << s[i].foodItem, s[i].station >> : i \in Matched(s, station) }

Members(s, station, g) ==
    { i \in Matched(s, station) : << s[i].foodItem, s[i].station >> = g }

RECURSIVE SumRatings(_, _)
SumRatings(s, I) ==
    IF I = {} THEN 0
    ELSE LET i == CHOOSE j \in I : TRUE
         IN s[i].rating + SumRatings(s, I \ {i})

\* { $round: [ "$avgRating", 1 ] } of sum / n, in tenths (halves go to the even digit)
Round1(sum, n) ==
    LET q == (10 * sum) \div n
        r == (10 * sum) % n
    IN IF 2 * r < n THEN q
       ELSE IF 2 * r > n THEN q + 1
       ELSE IF q % 2 = 0 THEN q ELSE q + 1

\* the order of the image strings under $max
ImageRank(u) == CASE u = "img1" -> 1 [] u = "img2" -> 2 [] OTHER -> 0

\* latestImage: $max of { image, date } over the reviews with an image, else null;
\* documents compare by their first field, the image string
LatestImage(s, I) ==
    LET withImage == { i \in I : s[i].imageUrl # Null }
    IN IF withImage = {} THEN Missing
       ELSE s[CHOOSE i \in withImage :
                \A j \in withImage :
                    ImageRank(s[j].imageUrl) <= ImageRank(s[i].imageUrl)].imageUrl

Group(s, station, g) ==
    LET I == Members(s, station, g)
    IN [foodItem |-> g[1], station |-> g[2],
        avgRating |-> Round1(SumRatings(s, I), Cardinality(I)),
        reviewCount |-> Cardinality(I),
        imageUrl |-> LatestImage(s, I)]

Groups(s, station) == { Group(s, station, g) : g \in GroupIds(s, station) }

\* { $sort: { reviewCount: -1, avgRating: -1 } }: ties come in either order
SortedBefore(a, b) ==
    \/ a.reviewCount > b.reviewCount
    \/ a.reviewCount = b.reviewCount /\ a.avgRating >= b.avgRating

IsSorted(q) == \A i \in 1..(Len(q) - 1) : SortedBefore(q[i], q[i + 1])

\* the lists the aggregation may return on the collection s
Aggregate(s, station) ==
    LET G == Groups(s, station)
    IN { q \in [1..Cardinality(G) -> G] : Range(q) = G /\ IsSorted(q) }

\* an entry still served at the instant it expires
CacheFresh_Inclusive(e, t) == e.expiry >= t

\* expiry > Date.now()
CacheFresh(e, t) == e.expiry > t

\* a read in flight: pc is idle (no request in the slot), pending (awaiting the
\* aggregation) or fetched (the aggregation ran, its result is on its way
\* back); hadExpired records, for the request, whether its key's cache entry
\* was there but expired when it came in, and computedAt the instant its
\* aggregation ran and computedFrom the collection it ran on (a cache entry
\* keeps the computedAt and computedFrom of its data)
ReadIdle ==
    [pc |-> "idle", station |-> Missing, refresh |-> FALSE, foodItems |-> << >>,
     hadExpired |-> FALSE, computedAt |-> 0, computedFrom |-> << >>]

\* the cache is used whatever the flag says
UseCache_Always(refresh) == TRUE

\* useCache = refresh !== 'true'
UseCache(refresh) == ~refresh

\* a response, with the request it answers
ReadResp(st, station, refresh, expired, data, hit, at) ==
    [status |-> st, station |-> station, refresh |-> refresh,
     hadExpired |-> expired, foodItems |-> data.foodItems, total |-> data.total,
     generatedAt |-> data.generatedAt, fromCache |-> hit, cachedAt |-> at]

NoData == [foodItems |-> << >>, total |-> 0, generatedAt |-> 0]

ReadIssue(g, station, refresh) ==
    /\ reads[g].pc = "idle"
    /\ \A h \in DOMAIN reads : h < g => reads[h].pc # "idle"
    /\ LET key == cacheKey(station)
           useCache == UseCache(refresh)
           has == cache[key] # None
       IN IF useCache /\ has /\ CacheFresh(Val(cache[key]), now)
          THEN /\ sent' = Some(ReadResp(200, station, refresh, FALSE,
                                   Val(cache[key]).data, TRUE,
                                   Some(Val(cache[key]).expiry - CACHE_TTL)))
               /\ UNCHANGED reads
          ELSE /\ reads' = [reads EXCEPT ![g] =
                   [pc |-> "pending", station |-> station, refresh |-> refresh,
                    foodItems |-> << >>,
                    hadExpired |-> (has /\ ~CacheFresh(Val(cache[key]), now)),
                    computedAt |-> 0, computedFrom |-> << >>]]
               /\ UNCHANGED sent
    /\ UNCHANGED adminVars
    /\ UNCHANGED histVars
    /\ UNCHANGED << store, nextId, now, post, reviewQueue, processingQueue,
                    flushpc, batch, delResp, insertFailed, cache, firstFill >>

\* the database runs the aggregation on the collection as it is now
ReadAggregate(g) ==
    /\ reads[g].pc = "pending"
    /\ \E q \in Aggregate(store, reads[g].station) :
          reads' = [reads EXCEPT ![g].pc = "fetched", ![g].foodItems = q,
                                 ![g].computedAt = now,
                                 ![g].computedFrom = store]
    /\ UNCHANGED adminVars
    /\ UNCHANGED histVars
    /\ UNCHANGED << store, nextId, now, post, reviewQueue, processingQueue,
                    flushpc, batch, delResp, insertFailed, cache, sent, firstFill >>

\* the aggregation rejects: the handler's catch answers 500
ReadAggregateFail(g) ==
    /\ reads[g].pc = "pending"
    /\ reads' = [reads EXCEPT ![g] = ReadIdle]
    /\ sent' = Some(ReadResp(500, reads[g].station, reads[g].refresh,
                             reads[g].hadExpired, NoData, FALSE, None))
    /\ UNCHANGED adminVars
    /\ UNCHANGED histVars
    /\ UNCHANGED << store, nextId, now, post, reviewQueue, processingQueue,
                    flushpc, batch, delResp, insertFailed, cache, firstFill >>

\* the result arrives: responseData, cache.set, 200.  firstFill keeps, for each
\* key, the data of the earliest fill that is less than a TTL old.
ReadComplete(g) ==
    /\ reads[g].pc = "fetched"
    /\ LET data == [foodItems |-> reads[g].foodItems,
                    total |-> Len(reads[g].foodItems), generatedAt |-> now]
           key == cacheKey(reads[g].station)
       IN /\ reads' = [reads EXCEPT ![g] = ReadIdle]
          /\ sent' = Some(ReadResp(200, reads[g].station, reads[g].refresh,
                                   reads[g].hadExpired, data, FALSE, None))
          /\ IF UseCache(reads[g].refresh)
             THEN /\ cache' = [cache EXCEPT ![key] =
                                 Some([data |-> data, expiry |-> now + CACHE_TTL,
                                       computedAt |-> reads[g].computedAt,
                                       computedFrom |-> reads[g].computedFrom])]
                  /\ firstFill' =
                       IF firstFill[key] # None
                          /\ now < Val(firstFill[key]).generatedAt + CACHE_TTL
                       THEN firstFill
                       ELSE [firstFill EXCEPT ![key] = Some(data)]
             ELSE UNCHANGED << cache, firstFill >>
    /\ UNCHANGED adminVars
    /\ UNCHANGED histVars
    /\ UNCHANGED << store, nextId, now, post, reviewQueue, processingQueue,
                    flushpc, batch, delResp, insertFailed >>

\* an entry that expires now is swept too
Expired_Inclusive(e, t) == e.expiry <= t

\* expiry < now
Expired(e, t) == e.expiry < t

\* setInterval(() => { ... cache.delete(key) ... }, CACHE_TTL)
Sweep ==
    /\ cache' = [k \in DOMAIN cache |->
                    IF cache[k] # None /\ Expired(Val(cache[k]), now)
                    THEN None ELSE cache[k]]
    /\ UNCHANGED adminVars
    /\ UNCHANGED histVars
    /\ UNCHANGED << store, nextId, now, post, reviewQueue, processingQueue,
                    flushpc, batch, delResp, insertFailed, reads, sent, firstFill >>

\* --------------------------------------------------- specifications
\* ids a DELETE may name: every id handed out so far, and 0, which is never stored
DeleteIds == 0..(nextId - 1)

Init ==
    /\ store = << >>
    /\ nextId = 1
    /\ now = 0
    /\ post = [r \in 1..MaxReq |-> Idle]
    /\ reviewQueue = << >>
    /\ processingQueue = FALSE
    /\ flushpc = "idle"
    /\ batch = << >>
    /\ delResp = [id |-> None, status |-> 0]
    /\ insertFailed = FALSE
    /\ cache = [k \in CacheKeys |-> None]
    /\ reads = [g \in 1..MaxRead |-> ReadIdle]
    /\ sent = None
    /\ firstFill = [k \in CacheKeys |-> None]
    /\ nodeEnv = "development"
    /\ clearResp = None
    /\ listResp = None
    /\ startedBy = "none"

Next ==
    \/ \E r \in Slots, b \in Bodies : PostHandle(r, b)
    \/ \E r \in Slots : InsertOneOK(r)
    \/ \E r \in Slots : InsertOneFail(r)
    \/ TimerTick
    \/ \E id \in DeleteIds : DeleteReview(id)
    \/ DeleteNoId
    \/ Tick(0..MaxTime)

Spec == Init /\ [][Next]_vars

\* The review API beside the bulk-clear endpoint, in a process started in
\* either mode, with the clock held at 0.
InitAdmin ==
    /\ store = << >>
    /\ nextId = 1
    /\ now = 0
    /\ post = [r \in 1..MaxReq |-> Idle]
    /\ reviewQueue = << >>
    /\ processingQueue = FALSE
    /\ flushpc = "idle"
    /\ batch = << >>
    /\ delResp = [id |-> None, status |-> 0]
    /\ insertFailed = FALSE
    /\ cache = [k \in CacheKeys |-> None]
    /\ reads = [g \in 1..MaxRead |-> ReadIdle]
    /\ sent = None
    /\ firstFill = [k \in CacheKeys |-> None]
    /\ nodeEnv \in { "production", "development" }
    /\ clearResp = None
    /\ listResp = None
    /\ startedBy = "none"

NextAdmin ==
    \/ \E r \in Slots, b \in ValidBodies : PostHandle(r, b)
    \/ \E r \in Slots : InsertOneOK(r)
    \/ \E r \in Slots : InsertOneFail(r)
    \/ \E id \in DeleteIds : DeleteReview(id)
    \/ DeleteNoId
    \/ DeleteBadId
    \/ \E m \in Methods : ClearReviews(m)
    \/ ClearReviewsFail

SpecAdmin == InitAdmin /\ [][NextAdmin]_vars

\* The listing beside the submissions and the deletions.
InitListing ==
    /\ store = << >>
    /\ nextId = 1
    /\ now = 0
    /\ post = [r \in 1..MaxReq |-> Idle]
    /\ reviewQueue = << >>
    /\ processingQueue = FALSE
    /\ flushpc = "idle"
    /\ batch = << >>
    /\ delResp = [id |-> None, status |-> 0]
    /\ insertFailed = FALSE
    /\ cache = [k \in CacheKeys |-> None]
    /\ reads = [g \in 1..MaxRead |-> ReadIdle]
    /\ sent = None
    /\ firstFill = [k \in CacheKeys |-> None]
    /\ nodeEnv = "development"
    /\ clearResp = None
    /\ listResp = None
    /\ startedBy = "none"

NextListing ==
    \/ \E r \in Slots, b \in ValidBodies : PostHandle(r, b)
    \/ \E r \in Slots : InsertOneOK(r)
    \/ \E id \in StoreIds : DeleteReview(id)
    \/ \E f \in FoodItemParams, st \in StationParams, fields \in FieldsParams,
          tie \in BOOLEAN : ListReviews(f, st, fields, tie)
    \/ \E f \in FoodItemParams, st \in StationParams, fields \in FieldsParams :
          ListReviewsFail(f, st, fields)
    \/ Tick(0..MaxTime)

SpecListing == InitListing /\ [][NextListing]_vars

\* n reviews of one food item, written directly one a minute up to time 0
Prefilled(n) ==
    [i \in 1..n |-> Doc(newReview(PreBody(1), i - n), i)]

\* The listing over a collection that already holds as many reviews as one
\* listing returns, beside one submission and the deletion of the newest
\* review, with the clock held at 0.
InitListingFull ==
    /\ store = Prefilled(LIMIT)
    /\ nextId = Len(store) + 1
    /\ now = 0
    /\ post = << Idle >>
    /\ reviewQueue = << >>
    /\ processingQueue = FALSE
    /\ flushpc = "idle"
    /\ batch = << >>
    /\ delResp = [id |-> None, status |-> 0]
    /\ insertFailed = FALSE
    /\ cache = [k \in CacheKeys |-> None]
    /\ reads = [g \in 1..MaxRead |-> ReadIdle]
    /\ sent = None
    /\ firstFill = [k \in CacheKeys |-> None]
    /\ nodeEnv = "development"
    /\ clearResp = None
    /\ listResp = None
    /\ startedBy = "none"

NextListingFull ==
    \/ \E r \in Slots, b \in ValidBodies : PostHandle(r, b)
    \/ \E r \in Slots : InsertOneOK(r)
    \/ \E id \in {nextId - 1} : DeleteReview(id)
    \/ \E f \in FoodItemParams, st \in StationParams, fields \in FieldsParams,
          tie \in BOOLEAN : ListReviews(f, st, fields, tie)

SpecListingFull == InitListingFull /\ [][NextListingFull]_vars

\* ---------------------------------------------- DELETE (C4, C5)
DocWithId(s, id) == CHOOSE i \in 1..Len(s) : s[i]._id = id
Inactive(s) == { i \in 1..Len(s) : s[i].isActive = Some(FALSE) }

\* C4: DELETE of an existing review id answers 200, sets that document's
\* isActive to false and a deletedAt timestamp, keeps the document in the store,
\* and changes no other document and no other field.
C4_SoftDeleteKeepsRecord ==
    [][\A id \in StoreIds :
          DeleteReview(id) =>
            /\ delResp'.status = 200
            /\ Len(store') = Len(store)
            /\ \A i \in 1..Len(store) :
                  IF store[i]._id = id
                  THEN /\ store'[i].isActive = Some(FALSE)
                       /\ store'[i].deletedAt = Some(now)
                       /\ [store'[i] EXCEPT !.isActive = store[i].isActive,
                                             !.deletedAt = store[i].deletedAt]
                            = store[i]
                  ELSE store'[i] = store[i]]_vars

\* a DELETE answered 200 has left its document soft-deleted beside an untouched
\* active one
C4_Witness ==
    /\ delResp.status = 200
    /\ Len(store) >= 2
    /\ \E i, j \in 1..Len(store) :
          /\ store[i]._id = Val(delResp.id)
          /\ store[i].isActive = Some(FALSE)
          /\ store[i].deletedAt # None
          /\ store[j].isActive = Some(TRUE)

\* C5: a second DELETE of an already soft-deleted id leaves the stored document
\* completely unchanged (deletedAt included) or answers not-found, and the count
\* of documents and of inactive documents stays what it was.
C5_SecondDeleteIsNoOp ==
    [][\A id \in StoreIds :
          (DeleteReview(id) /\ store[DocWithId(store, id)].isActive = Some(FALSE)) =>
            /\ store' = store \/ delResp'.status = 404
            /\ Len(store') = Len(store)
            /\ Cardinality(Inactive(store')) = Cardinality(Inactive(store))]_vars

\* a review stored by the earlier handler (src/pages/api/reviews.js), which wrote
\* no isActive field
LegacyDoc ==
    [_id |-> 1, foodItem |-> "Burger", station |-> "Grill", rating |-> 4,
     comment |-> "fine", reviewer |-> "Anonymous", imageUrl |-> Null,
     createdAt |-> 0, isActive |-> None, deletedAt |-> None]

\* the instants the read path's clock is sampled at: 0, and MaxTime minutes
\* from the TTL on
Instants == {0} \cup (CACHE_TTL..(CACHE_TTL + MaxTime - 1))

\* The food-items read path, one read at a time, beside one submission and the
\* deletion of the newest stored review; the collection already holds a review of the earlier handler and
\* one of this one.
InitFood ==
    /\ store = << LegacyDoc, Doc(newReview(PreBody(1), 0), 2) >>
    /\ nextId = Len(store) + 1
    /\ now = 0
    /\ post = << Idle >>
    /\ reviewQueue = << >>
    /\ processingQueue = FALSE
    /\ flushpc = "idle"
    /\ batch = << >>
    /\ delResp = [id |-> None, status |-> 0]
    /\ insertFailed = FALSE
    /\ cache = [k \in CacheKeys |-> None]
    /\ reads = << ReadIdle >>
    /\ sent = None
    /\ firstFill = [k \in CacheKeys |-> None]
    /\ nodeEnv = "development"
    /\ clearResp = None
    /\ listResp = None
    /\ startedBy = "none"

NextFood ==
    \/ \E r \in Slots, b \in ValidBodies : PostHandle(r, b)
    \/ \E r \in Slots : InsertOneOK(r)
    \/ \E id \in {nextId - 1} : DeleteReview(id)
    \/ \E g \in DOMAIN reads, p \in StationParams, f \in BOOLEAN : ReadIssue(g, p, f)
    \/ \E g \in DOMAIN reads : ReadAggregate(g)
    \/ \E g \in DOMAIN reads : ReadAggregateFail(g)
    \/ \E g \in DOMAIN reads : ReadComplete(g)
    \/ Sweep
    \/ Tick(Instants)

SpecFood == InitFood /\ [][NextFood]_vars

\* Concurrent reads of the unfiltered list beside one submission and the
\* deletion of the newest stored review, with the clock held at 0.
InitFoodRace ==
    /\ store = << LegacyDoc, Doc(newReview(PreBody(1), 0), 2) >>
    /\ nextId = Len(store) + 1
    /\ now = 0
    /\ post = << Idle >>
    /\ reviewQueue = << >>
    /\ processingQueue = FALSE
    /\ flushpc = "idle"
    /\ batch = << >>
    /\ delResp = [id |-> None, status |-> 0]
    /\ insertFailed = FALSE
    /\ cache = [k \in CacheKeys |-> None]
    /\ reads = [g \in 1..MaxRead |-> ReadIdle]
    /\ sent = None
    /\ firstFill = [k \in CacheKeys |-> None]
    /\ nodeEnv = "development"
    /\ clearResp = None
    /\ listResp = None
    /\ startedBy = "none"

NextFoodRace ==
    \/ \E r \in Slots, b \in ValidBodies : PostHandle(r, b)
    \/ \E r \in Slots : InsertOneOK(r)
    \/ \E id \in {nextId - 1} : DeleteReview(id)
    \/ \E g \in DOMAIN reads, p \in StationParams, f \in BOOLEAN : ReadIssue(g, p, f)
    \/ \E g \in DOMAIN reads : ReadAggregate(g)
    \/ \E g \in DOMAIN reads : ReadComplete(g)

SpecFoodRace == InitFoodRace /\ [][NextFoodRace]_vars

\* the instants the clock is sampled at when a query is slow: 0, when a query
\* issued at 0 returns, when an entry filled at 0 expires, and the last minute
\* an entry filled on that return is served
LatencyInstants == { 0, MaxTime + 1, CACHE_TTL, CACHE_TTL + MaxTime }

\* The food-items read path, one read at a time, with queries that take time,
\* beside the deletion of the newest stored review.
InitFoodLatency ==
    /\ store = << LegacyDoc, Doc(newReview(PreBody(1), 0), 2) >>
    /\ nextId = Len(store) + 1
    /\ now = 0
    /\ post = << Idle >>
    /\ reviewQueue = << >>
    /\ processingQueue = FALSE
    /\ flushpc = "idle"
    /\ batch = << >>
    /\ delResp = [id |-> None, status |-> 0]
    /\ insertFailed = FALSE
    /\ cache = [k \in CacheKeys |-> None]
    /\ reads = << ReadIdle >>
    /\ sent = None
    /\ firstFill = [k \in CacheKeys |-> None]
    /\ nodeEnv = "development"
    /\ clearResp = None
    /\ listResp = None
    /\ startedBy = "none"

NextFoodLatency ==
    \/ \E id \in {nextId - 1} : DeleteReview(id)
    \/ \E g \in DOMAIN reads, p \in StationParams, f \in BOOLEAN : ReadIssue(g, p, f)
    \/ \E g \in DOMAIN reads : ReadAggregate(g)
    \/ \E g \in DOMAIN reads : ReadComplete(g)
    \/ Sweep
    \/ Tick(LatencyInstants)

SpecFoodLatency == InitFoodLatency /\ [][NextFoodLatency]_vars

\* The write buffer and its flusher, run from a buffer that already holds k
\* waiting requests (each enqueued at time 0 by a handler that is now awaiting
\* its callback).  From Init itself the buffer never fills, since PostHandle
\* enqueues only into a non-empty buffer; k = 0 is Init.  The clock is held:
\* the buffer reads it only to stamp createdAt.
InitBuffered ==
    /\ store = << >>
    /\ nextId = 1
    /\ now = 0
    /\ \E k \in 0..MaxPre :
          /\ post = [r \in 1..(k + MaxReq) |->
                      IF r <= k THEN Pending("waiting", PreBody(r), 0) ELSE Idle]
          /\ reviewQueue = [i \in 1..k |-> i]
    /\ processingQueue = FALSE
    /\ flushpc = "idle"
    /\ batch = << >>
    /\ delResp = [id |-> None, status |-> 0]
    /\ insertFailed = FALSE
    /\ cache = [k \in CacheKeys |-> None]
    /\ reads = [g \in 1..MaxRead |-> ReadIdle]
    /\ sent = None
    /\ firstFill = [k \in CacheKeys |-> None]
    /\ nodeEnv = "development"
    /\ clearResp = None
    /\ listResp = None
    /\ startedBy = "none"

NextBuffered ==
    \/ \E r \in Slots, b \in Bodies : PostHandle(r, b)
    \/ \E r \in Slots : InsertOneOK(r)
    \/ \E r \in Slots : InsertOneFail(r)
    \/ TimerTick
    \/ FlushConnected
    \/ InsertManyOK
    \/ \E k \in 0..BATCH_SIZE : InsertManyFail(k)

SpecBuffered == InitBuffered /\ [][NextBuffered]_vars

\* The flusher beside deletes and the bulk clear: a stored review, and a buffer
\* that already holds k waiting requests.
InitFlushDelete ==
    /\ store = << Doc(newReview(PreBody(1), 0), 1) >>
    /\ nextId = 2
    /\ now = 0
    /\ \E k \in 1..MaxReq :
          /\ post = [r \in 1..(k + 1) |->
                      IF r <= k THEN Pending("waiting", PreBody(r), 0) ELSE Idle]
          /\ reviewQueue = [i \in 1..k |-> i]
    /\ processingQueue = FALSE
    /\ flushpc = "idle"
    /\ batch = << >>
    /\ delResp = [id |-> None, status |-> 0]
    /\ insertFailed = FALSE
    /\ cache = [k \in CacheKeys |-> None]
    /\ reads = << ReadIdle >>
    /\ sent = None
    /\ firstFill = [k \in CacheKeys |-> None]
    /\ nodeEnv = "development"
    /\ clearResp = None
    /\ listResp = None
    /\ startedBy = "none"

NextFlushDelete ==
    \/ \E r \in Slots, b \in ValidBodies : PostHandle(r, b)
    \/ \E r \in Slots : InsertOneOK(r)
    \/ TimerTick
    \/ FlushConnected
    \/ InsertManyOK
    \/ \E k \in 0..BATCH_SIZE : InsertManyFail(k)
    \/ \E id \in DeleteIds : DeleteReview(id)
    \/ \E m \in Methods : ClearReviews(m)

SpecFlushDelete == InitFlushDelete /\ [][NextFlushDelete]_vars

\* The flush timer keeps firing and every database call completes (it resolves
\* or it rejects).
SpecBufferedFair ==
    /\ SpecBuffered
    /\ WF_vars(TimerTick)
    /\ WF_vars(FlushConnected)
    /\ WF_vars(InsertManyOK \/ \E k \in 0..BATCH_SIZE : InsertManyFail(k))
    /\ WF_vars(\E r \in Slots : InsertOneOK(r) \/ InsertOneFail(r))

\* ------------------------------------- submissions (C1, C2, C3)

\* a valid submission: every required field present and the rating in 1..5
ValidSubmission(b) ==
    /\ b.foodItem \notin {Missing, Null, ""}
    /\ b.station \notin {Missing, Null, ""}
    /\ b.comment \notin {Missing, Null, ""}
    /\ b.rating # None
    /\ Val(b.rating) \in 1..5

Arrived == { r \in Slots : post[r].pc # "idle" }
ValidArrived == { r \in Arrived : ValidSubmission(Val(post[r].body)) }
Answered(r) == post[r].pc = "done"
Succeeded(r) ==
    /\ post[r].pc = "done"
    /\ Val(post[r].resp).status = 201
    /\ Val(post[r].resp).success = Some(TRUE)

\* C1: as long as no database insert has failed, every answered valid submission
\* was answered with success and the store holds exactly one document per
\* answered submission; so once all N are answered, N documents were added.
C1_NoLostSubmission ==
    ~insertFailed =>
        /\ \A r \in ValidArrived : Answered(r) => Succeeded(r)
        /\ Len(store) = Cardinality({ r \in ValidArrived : Answered(r) })
        /\ (\A r \in ValidArrived : Answered(r)) =>
                Len(store) = Cardinality(ValidArrived)

\* more than one batch of buffered submissions and a directly written one, all
\* answered with success
C1_Witness ==
    /\ ~insertFailed
    /\ Cardinality(Slots) > BATCH_SIZE + 1
    /\ \A r \in Slots : Succeeded(r)
    /\ \E r \in Slots : post[r].via = "inserting"
    /\ Len(store) = Cardinality(Slots)

\* the document a valid submission b is to leave in the store under _id = id
Holds(d, b, id) ==
    /\ d._id = id
    /\ d.foodItem = b.foodItem
    /\ d.station = b.station
    /\ d.rating = Val(b.rating)
    /\ d.comment = b.comment
    /\ d.imageUrl = (IF b.imageUrl = Missing THEN Null ELSE b.imageUrl)
    /\ d.reviewer = (IF b.reviewer = Missing THEN "Anonymous" ELSE b.reviewer)
    /\ d.isActive = Some(TRUE)

\* C2: at the step that answers a valid submission with success, the store
\* holds a document with the answered reviewId, the submitted foodItem, station,
\* rating, comment, imageUrl and reviewer ("Anonymous" when omitted) and
\* isActive = true, on the direct path and on the batch path.
C2_StoredAsSubmitted ==
    [][\A r \in Slots :
          (post[r].pc # "done" /\ post'[r].pc = "done"
              /\ Val(post'[r].resp).status = 201
              /\ Val(post'[r].resp).success = Some(TRUE)) =>
            \E i \in 1..Len(store') :
                Holds(store'[i], Val(post'[r].body),
                      Val(Val(post'[r].resp).reviewId))]_vars

\* one submission answered from a batch and one, sent without a reviewer,
\* answered after its own insertOne
C2_Witness ==
    \E r, q \in Slots :
        /\ Succeeded(r) /\ post[r].via = "waiting"
        /\ Succeeded(q) /\ post[q].via = "inserting"
        /\ Val(post[q].body).reviewer = Missing
        /\ \E i \in 1..Len(store) : store[i].reviewer = "Anonymous"

\* C3: a submission with a missing required field or a rating outside 1..5 is
\* answered 400 at once, and neither the store nor the write buffer changes.
C3_InvalidRejected ==
    [][\A r \in Slots, b \in Bodies :
          (PostHandle(r, b) /\ ~ValidSubmission(b)) =>
            /\ post'[r].pc = "done"
            /\ Val(post'[r].resp).status = 400
            /\ store' = store
            /\ reviewQueue' = reviewQueue
            /\ batch' = batch]_vars

\* a rating of 6 and a rating of 0 both answered 400 while the buffer holds
\* waiting requests
C3_Witness ==
    /\ Len(reviewQueue) > 0
    /\ \E r, q \in Slots :
          /\ Answered(r) /\ Val(post[r].body).rating = Some(6)
          /\ Val(post[r].resp).status = 400
          /\ Answered(q) /\ Val(post[q].body).rating = Some(0)
          /\ Val(post[q].resp).status = 400

Abs(x) == IF x < 0 THEN -x ELSE x

\* the reviews of a group that are not soft-deleted
ActiveOf(s, f, st) ==
    { i \in 1..Len(s) :
        s[i].foodItem = f /\ s[i].station = st /\ s[i].isActive # Some(FALSE) }

\* the groups with an active review that a read filtered by p is about
GroupsAbout(s, p) ==
    { << s[i].foodItem, s[i].station >> :
        i \in { j \in 1..Len(s) : /\ s[j].isActive # Some(FALSE)
                                  /\ p = Missing \/ s[j].station = p } }

ListedGroups(q) == { << q[k].foodItem, q[k].station >> : k \in 1..Len(q) }

\* the list q has one entry for each group of s under filter p, and Ok of each
ListOf(q, s, p, Ok(_, _)) ==
    /\ ListedGroups(q) = GroupsAbout(s, p)
    /\ Len(q) = Cardinality(GroupsAbout(s, p))
    /\ \A k \in 1..Len(q) : Ok(q[k], s)

ExactMean(x, s) ==
    LET I == ActiveOf(s, x.foodItem, x.station)
    IN /\ x.reviewCount = Cardinality(I)
       /\ x.avgRating * Cardinality(I) = 10 * SumRatings(s, I)

\* x.avgRating, in tenths, is a nearest one-decimal value of the mean
RoundedMean(x, s) ==
    LET I == ActiveOf(s, x.foodItem, x.station)
    IN /\ x.reviewCount = Cardinality(I)
       /\ 2 * Abs(x.avgRating * Cardinality(I) - 10 * SumRatings(s, I))
             <= Cardinality(I)

\* the step answers a read from the cache
ServedFromCache(g) ==
    /\ \E p \in StationParams, f \in BOOLEAN : ReadIssue(g, p, f)
    /\ reads' = reads
    /\ sent' # sent

\* C6 as stated: in every response, each group's reviewCount and average are
\* the count and the arithmetic mean of the ratings of exactly the group's
\* active reviews in the store, whether the list was just aggregated or is
\* served from the cache.
C6_ExactMeanOfActive ==
    [][\A g \in DOMAIN reads :
          /\ ReadAggregate(g)
                => ListOf(reads'[g].foodItems, store, reads[g].station, ExactMean)
          /\ ServedFromCache(g)
                => ListOf(Val(sent').foodItems, store, Val(sent').station, ExactMean)
      ]_vars

\* C6 amended: a response computed from the store lists, for each group with an
\* active review when the aggregation ran, the count and the mean rounded to
\* one decimal of exactly the active reviews' ratings, so a review soft-deleted
\* before the read is counted in neither; a response served from the cache
\* repeats the data of the cache entry.
C6_RoundedMeanOfActive ==
    [][\A g \in DOMAIN reads :
          /\ ReadAggregate(g)
                => ListOf(reads'[g].foodItems, store, reads[g].station, RoundedMean)
          /\ ReadComplete(g)
                => /\ Val(sent').status = 200 /\ ~Val(sent').fromCache
                   /\ Val(sent').foodItems = reads[g].foodItems
                   /\ Val(sent').total = Len(reads[g].foodItems)
          /\ ServedFromCache(g)
                => LET e == Val(cache[cacheKey(Val(sent').station)])
                   IN /\ Val(sent').fromCache
                      /\ Val(sent').foodItems = e.data.foodItems
                      /\ Val(sent').total = e.data.total
      ]_vars

\* a response computed from the store that leaves out a soft-deleted review of
\* a group it lists
C6_Witness ==
    /\ sent # None
    /\ Val(sent).status = 200 /\ ~Val(sent).fromCache
    /\ \E k \in 1..Len(Val(sent).foodItems), i \in 1..Len(store) :
          LET x == Val(sent).foodItems[k]
          IN /\ store[i].isActive = Some(FALSE)
             /\ store[i].foodItem = x.foodItem /\ store[i].station = x.station
             /\ RoundedMean(x, store)

\* C7: a read without the refresh flag, issued less than a TTL after a fill of
\* its filter's entry, is answered with the foodItems list and total that the
\* filling read was answered with.
C7_RepeatedReadsIdentical ==
    [][\A g \in DOMAIN reads, p \in StationParams :
          LET first == firstFill[cacheKey(p)]
          IN (/\ ReadIssue(g, p, FALSE)
              /\ first # None
              /\ now < Val(first).generatedAt + CACHE_TTL)
             => /\ reads' = reads
                /\ sent' # None
                /\ Val(sent').foodItems = Val(first).foodItems
                /\ Val(sent').total = Val(first).total
      ]_vars

\* the reviews that a read filtered by p is about are all counted in the list q
Reflects(q, s, p) ==
    \A i \in 1..Len(s) :
        (s[i].isActive # Some(FALSE) /\ (p = Missing \/ s[i].station = p))
        => \E k \in 1..Len(q) :
              /\ q[k].foodItem = s[i].foodItem /\ q[k].station = s[i].station
              /\ q[k].reviewCount
                   = Cardinality(ActiveOf(s, s[i].foodItem, s[i].station))

\* C8: a read that comes in when its filter's cache entry has expired is not
\* answered from the cache; its aggregation runs on the collection, which never
\* loses a stored review, and counts every review in it that is not
\* soft-deleted, and the response carries that list.
C8_ExpiredEntryNotServed ==
    [][/\ Len(store') >= Len(store)
       /\ \A i \in 1..Len(store) : store'[i]._id = store[i]._id
       /\ \A g \in DOMAIN reads, p \in StationParams, f \in BOOLEAN :
             LET e == cache[cacheKey(p)]
             IN (ReadIssue(g, p, f) /\ e # None /\ Val(e).expiry <= now)
                => /\ sent' = sent
                   /\ reads'[g].pc = "pending"
                   /\ reads'[g].hadExpired
       /\ \A g \in DOMAIN reads :
             /\ (ReadAggregate(g) /\ reads[g].hadExpired)
                   => Reflects(reads'[g].foodItems, store, reads[g].station)
             /\ (ReadComplete(g) /\ reads[g].hadExpired)
                   => /\ ~Val(sent').fromCache
                      /\ Val(sent').generatedAt = now
                      /\ Val(sent').foodItems = reads[g].foodItems
      ]_vars

\* a read that came in on an expired entry has been answered with a list
\* computed at the TTL that counts a review submitted after the entry was filled
C8_Witness ==
    /\ sent # None
    /\ Val(sent).hadExpired /\ Val(sent).status = 200 /\ ~Val(sent).fromCache
    /\ Val(sent).generatedAt = CACHE_TTL
    /\ \E i \in 1..Len(store), k \in 1..Len(Val(sent).foodItems) :
          LET x == Val(sent).foodItems[k]
          IN /\ store[i]._id = 3 /\ store[i].isActive = Some(TRUE)
             /\ x.foodItem = store[i].foodItem /\ x.station = store[i].station
             /\ x.reviewCount = Cardinality(ActiveOf(store, x.foodItem, x.station))
             /\ x.reviewCount = 3

InFlight ==
    { r \in Slots : post[r].pc = "inserting" } \cup Range(reviewQueue)
        \cup Range(batch)

Listed == listResp' # listResp /\ Val(listResp').status = 200

\* the positions of the stored reviews a listing filtered by f and st is about
ListedAbout(s, f, st) ==
    { i \in 1..Len(s) : /\ s[i].isActive # Some(FALSE)
                        /\ f = Missing \/ s[i].foodItem = f
                        /\ st = Missing \/ s[i].station = st }

PosOfId(s, id) == CHOOSE i \in 1..Len(s) : s[i]._id = id

\* C13: every review a listing returns is a stored review that is not
\* soft-deleted, and a soft-deleted review stays in the store under its id.
C13_ListingOnlyActive ==
    [][/\ Listed =>
            \A k \in 1..Len(Val(listResp').reviews) :
                \E i \in 1..Len(store) :
                    /\ store[i]._id = Val(listResp').reviews[k]._id
                    /\ store[i].isActive # Some(FALSE)
       /\ \A i \in 1..Len(store) :
            store[i].isActive = Some(FALSE)
            => /\ i <= Len(store')
               /\ store'[i]._id = store[i]._id
               /\ store'[i].isActive = Some(FALSE)
      ]_vars

\* a listing answered at time 1 returns a review and leaves out one of its
\* filter that was soft-deleted at time 0 and is still stored
C13_Witness ==
    /\ listResp # None
    /\ Val(listResp).status = 200 /\ Val(listResp).at = 1
    /\ Len(Val(listResp).reviews) >= 1
    /\ \E i \in 1..Len(store) :
          /\ store[i].isActive = Some(FALSE) /\ store[i].deletedAt = Some(0)
          /\ Val(listResp).foodItem \in { Missing, store[i].foodItem }
          /\ Val(listResp).station \in { Missing, store[i].station }
          /\ \A k \in 1..Len(Val(listResp).reviews) :
                Val(listResp).reviews[k]._id # store[i]._id

\* C19: a listing returns at most LIMIT reviews, each an active stored review
\* of its filter and none twice, newest first; it returns all of them when
\* there are at most LIMIT, and otherwise LIMIT of them, none older than a
\* review it leaves out.
C19_NewestFifty ==
    [][Listed =>
        LET q == Val(listResp').reviews
            M == ListedAbout(store, Val(listResp').foodItem, Val(listResp').station)
            L == { i \in M : \E k \in 1..Len(q) : q[k]._id = store[i]._id }
        IN /\ Len(q) <= LIMIT
           /\ Len(q) = IF Cardinality(M) > LIMIT THEN LIMIT ELSE Cardinality(M)
           /\ Cardinality(L) = Len(q)
           /\ \A k \in 1..Len(q) : q[k]._id \in { store[i]._id : i \in M }
           /\ \A k \in 1..(Len(q) - 1) :
                 store[PosOfId(store, q[k]._id)].createdAt
                    >= store[PosOfId(store, q[k + 1]._id)].createdAt
           /\ \A i \in M \ L, j \in L : store[i].createdAt <= store[j].createdAt
      ]_vars

\* a listing of LIMIT reviews out of LIMIT + 1 active ones of its filter: the
\* newest is listed and the oldest is not
C19_Witness ==
    /\ listResp # None
    /\ Val(listResp).status = 200
    /\ Len(Val(listResp).reviews) = LIMIT
    /\ Cardinality(ListedAbout(store, Val(listResp).foodItem,
                               Val(listResp).station)) = LIMIT + 1
    /\ \E k \in 1..LIMIT : Val(listResp).reviews[k]._id = LIMIT + 1
    /\ \A k \in 1..LIMIT : Val(listResp).reviews[k]._id # 1

\* ------------------------------ records and the DELETE errors (C14, C17, C18)
\* the step is a bulk-clear request
Clearing == \E m \in Methods : ClearReviews(m)

\* e is d but for isActive and deletedAt
SameButFlags(d, e) ==
    [e EXCEPT !.isActive = d.isActive, !.deletedAt = d.deletedAt] = d

\* C14: in a step that is not a bulk clear every stored record stays in the
\* store, with its foodItem, station, rating, comment, reviewer, imageUrl and
\* createdAt as they were; only a soft delete of the record changes it, and
\* then only isActive and deletedAt.
C14_RecordsKept ==
    [][~Clearing =>
        /\ Len(store') >= Len(store)
        /\ \A i \in 1..Len(store) :
              /\ SameButFlags(store[i], store'[i])
              /\ store'[i] # store[i] => DeleteReview(store[i]._id)
      ]_vars

\* after a bulk clear that removed a review, a review submitted since has been
\* soft-deleted and is stored with every field it was created with
C14_Witness ==
    /\ clearResp # None
    /\ Val(clearResp).status = 200 /\ Val(clearResp).deletedCount >= 1
    /\ \E i \in 1..Len(store), r \in Slots :
          /\ store[i].isActive = Some(FALSE) /\ store[i].deletedAt # None
          /\ Succeeded(r)
          /\ Val(Val(post[r].resp).reviewId) = store[i]._id
          /\ SameButFlags(Doc(Val(post[r].review), store[i]._id), store[i])

\* C17: a DELETE whose id matches no stored review, well-formed or not, is
\* answered 404, a DELETE without an id is answered 400, and neither changes
\* the store.
C17_DeleteErrors ==
    [][/\ DeleteNoId => (delResp'.status = 400 /\ store' = store)
       /\ DeleteBadId => (delResp'.status = 404 /\ store' = store)
       /\ \A id \in DeleteIds \ StoreIds :
             DeleteReview(id) => (delResp'.status = 404 /\ store' = store)
      ]_vars

\* C18: in production mode a bulk-clear request is refused and the store is
\* left as it is.
C18_ClearRefusedInProduction ==
    [][(nodeEnv = "production" /\ Clearing)
          => (store' = store /\ Val(clearResp').status # 200)]_vars

\* ------------------------------------- refresh and staleness (C15, C16)
\* C15: a read with refresh=true is never answered from the cache; its list is
\* aggregated from the store as it is when the query runs and is the list of
\* its response; and no step of the read changes the cache.
C15_RefreshBypassesCache ==
    [][\A g \in DOMAIN reads :
          /\ (\E p \in StationParams : ReadIssue(g, p, TRUE))
                => /\ reads'[g].pc = "pending" /\ reads'[g].refresh
                   /\ sent' = sent /\ cache' = cache
          /\ (reads[g].refresh /\ ReadAggregate(g))
                => /\ ListOf(reads'[g].foodItems, store, reads[g].station, RoundedMean)
                   /\ cache' = cache
          /\ (reads[g].refresh /\ ReadAggregateFail(g)) => cache' = cache
          /\ (reads[g].refresh /\ ReadComplete(g))
                => /\ cache' = cache
                   /\ ~Val(sent').fromCache /\ Val(sent').status = 200
                   /\ Val(sent').foodItems = reads[g].foodItems
      ]_vars

\* a refresh read has been answered, while its key's entry is fresh, with a
\* list that is not the cached one, and the entry is as it was filled
C15_Witness ==
    /\ sent # None
    /\ Val(sent).refresh /\ Val(sent).status = 200 /\ ~Val(sent).fromCache
    /\ LET e == cache[cacheKey(Val(sent).station)]
       IN /\ e # None
          /\ Val(e).expiry > now
          /\ Val(e).data.foodItems # Val(sent).foodItems
          /\ Val(e).data.generatedAt <= Val(sent).generatedAt
          /\ Val(e).expiry = Val(e).data.generatedAt + CACHE_TTL

\* C16: a response served from the cache carries data that was computed from
\* the store at most CACHE_TTL before the response is served.
C16_StalenessBounded ==
    [][\A g \in DOMAIN reads :
          ServedFromCache(g)
            => now - Val(cache[cacheKey(Val(sent').station)]).computedAt
                  <= CACHE_TTL
      ]_vars

Late == { r \in Slots : r > Cardinality(Slots) - MaxReq }

\* C21: the flag is set exactly while a flush is between its start and its end,
\* and a batch is out only while its insertMany is awaited; a timer tick or a
\* handler that runs while a flush is running removes nothing from the buffer,
\* takes no batch and issues no insert; and a flush starts only when none runs.
C21_SingleFlush ==
    [][/\ processingQueue <=> (flushpc # "idle")
       /\ (batch # << >>) => (flushpc = "inserting")
       /\ (processingQueue /\ (TimerTick \/ \E r \in Slots, b \in Bodies : PostHandle(r, b)))
            => /\ processingQueue' /\ flushpc' = flushpc /\ batch' = batch
               /\ store' = store /\ nextId' = nextId
               /\ Len(reviewQueue') >= Len(reviewQueue)
               /\ SubSeq(reviewQueue', 1, Len(reviewQueue)) = reviewQueue
       /\ (flushpc' = "connecting" /\ flushpc # "connecting")
            => (~processingQueue /\ flushpc = "idle" /\ batch = << >>)
      ]_vars

\* a flush started by a handler is awaiting the insert of a full batch while a
\* request that was enqueued during it waits in the buffer
C21_Witness ==
    /\ startedBy = "handler"
    /\ processingQueue /\ flushpc = "inserting"
    /\ Len(batch) = BATCH_SIZE
    /\ reviewQueue # << >>
    /\ \A i \in 1..Len(reviewQueue) :
          reviewQueue[i] \in Late /\ post[reviewQueue[i]].pc = "waiting"

\* C24: an enqueue that brings the buffer to BATCH_SIZE or more while no flush
\* is running starts a flush in the same step; an enqueue that leaves the buffer
\* shorter, or that happens while a flush is running, starts none.
C24_EnqueueStartsFlush ==
    [][\A r \in Slots :
          (post[r].pc = "idle" /\ post'[r].pc = "waiting")
            => IF ~processingQueue /\ Len(reviewQueue') >= BATCH_SIZE
               THEN /\ processingQueue' /\ flushpc' = "connecting"
                    /\ batch' = batch /\ store' = store
               ELSE processingQueue' = processingQueue /\ flushpc' = flushpc
      ]_vars

\* two requests were enqueued after the start: the first left the buffer short
\* of a batch and no flush began, the second filled it and its handler started
\* the flush, which has not yet taken a batch
C24_Witness ==
    /\ startedBy = "handler"
    /\ flushpc = "connecting" /\ processingQueue
    /\ Len(reviewQueue) = BATCH_SIZE
    /\ Cardinality(Late) = 2
    /\ \A r \in Late : post[r].pc = "waiting" /\ r \in Range(reviewQueue)

\* -------------------------------------------- the decision (C22, C26)
\* C22: a valid submission is appended to the buffer and awaits its callback
\* exactly when the buffer is non-empty as its handler decides; when the buffer
\* is empty then, whether or not a flush is awaiting its insert, the handler
\* awaits its own insertOne, which adds one record at most, and the request is
\* never in the buffer or in a batch.
C22_EnqueueIffBufferNonEmpty ==
    [][\A r \in Slots :
          /\ (post[r].pc = "idle" /\ post'[r].pc # "idle"
                /\ ValidSubmission(Val(post'[r].body)))
                => IF Len(reviewQueue) > 0
                   THEN /\ reviewQueue' = Append(reviewQueue, r)
                        /\ post'[r].pc = "waiting"
                        /\ store' = store
                   ELSE /\ reviewQueue' = reviewQueue
                        /\ post'[r].pc = "inserting"
                        /\ store' = store
          /\ (post[r].via = "inserting")
                => /\ r \notin Range(reviewQueue) \cup Range(batch)
                   /\ r \notin Range(reviewQueue') \cup Range(batch')
          /\ (post[r].pc = "inserting" /\ post'[r].pc # "inserting")
                => /\ post'[r].pc = "done"
                   /\ \/ store' = store
                      \/ /\ Len(store') = Len(store) + 1
                         /\ SubSeq(store', 1, Len(store)) = store
                         /\ Holds(store'[Len(store')], Val(post[r].body),
                                  Val(Val(post'[r].resp).reviewId))
      ]_vars

\* while a flush awaits the insert of its batch and the buffer is empty, a
\* submission is awaiting its own insertOne; an earlier one had been enqueued
C22_Witness ==
    /\ processingQueue /\ flushpc = "inserting" /\ batch # << >>
    /\ reviewQueue = << >>
    /\ \E r, q \in Late :
          /\ post[r].pc = "inserting"
          /\ post[q].via = "waiting" /\ q \in Range(batch)

\* ------------------------------------------------- callbacks (C23)
\* C23: when an insertMany resolves, the i-th request of the batch is answered
\* with success and with the id of the i-th record the insert appended, which
\* holds what that request submitted; no two requests get the same id.
C23_CallbackGetsOwnId ==
    [][InsertManyOK =>
          /\ Len(store') = Len(store) + Len(batch)
          /\ \A i \in 1..Len(batch) :
                LET r == batch[i]
                    d == store'[Len(store) + i]
                IN /\ post[r].pc = "waiting"
                   /\ post'[r].pc = "done"
                   /\ Val(post'[r].resp).status = 201
                   /\ Val(post'[r].resp).success = Some(TRUE)
                   /\ Val(post'[r].resp).reviewId = Some(d._id)
                   /\ d._id \notin StoreIds
                   /\ Holds(d, Val(post[r].body), d._id)
          /\ \A i, j \in 1..Len(batch) :
                i # j => store'[Len(store) + i]._id # store'[Len(store) + j]._id
      ]_vars

\* a batch of requests with different bodies was answered, two neighbours of it
\* each with the id of the record that holds its own body
C23_Witness ==
    /\ ~insertFailed
    /\ \E r, q \in Slots :
          /\ q = r + 1
          /\ Succeeded(r) /\ post[r].via = "waiting"
          /\ Succeeded(q) /\ post[q].via = "waiting"
          /\ Val(post[r].body) # Val(post[q].body)
          /\ Val(Val(post[q].resp).reviewId) = Val(Val(post[r].resp).reviewId) + 1
          /\ \E i \in 1..(Len(store) - 1) :
                /\ Holds(store[i], Val(post[r].body), Val(Val(post[r].resp).reviewId))
                /\ Holds(store[i + 1], Val(post[q].body), Val(Val(post[q].resp).reviewId))

\* --------------------------------------------------- the sweep (C25)
\* C25: a sweep removes the entries whose expiry is earlier than the current
\* time and no other, leaving the rest with their data and expiry; and a
\* response is served from the cache only from an entry whose expiry is later
\* than the current time, swept or not.
C25_SweepRemovesExpiredOnly ==
    [][/\ Sweep =>
            \A k \in CacheKeys :
                IF cache[k] # None /\ Val(cache[k]).expiry < now
                THEN cache'[k] = None
                ELSE cache'[k] = cache[k]
       /\ \A g \in DOMAIN reads :
            ServedFromCache(g) =>
                LET e == cache[cacheKey(Val(sent').station)]
                IN /\ e # None
                   /\ Val(e).expiry > now
                   /\ cache' = cache
      ]_vars

\* a read that found its key's entry expired is still in flight, the sweep has
\* removed that entry since, and the other key's entry, not yet expired, is in
\* place as it was filled
C25_Witness ==
    /\ \E g \in DOMAIN reads :
          /\ reads[g].pc = "pending" /\ reads[g].hadExpired /\ ~reads[g].refresh
          /\ cache[cacheKey(reads[g].station)] = None
    /\ \E k \in CacheKeys :
          /\ cache[k] # None
          /\ Val(cache[k]).expiry > now
          /\ Val(cache[k]).expiry = Val(cache[k]).data.generatedAt + CACHE_TTL

Increasing(q) == \A i, j \in 1..Len(q) : i < j => q[i] < q[j]

FlushWrites == InsertManyOK \/ \E k \in 0..BATCH_SIZE : InsertManyFail(k)

\* C27: the batch in flight followed by the buffer holds the waiting requests
\* in arrival order, an enqueue goes to the end of the buffer, a batch insert
\* appends the records of its requests in batch order, and the records of the
\* store are in the order of their ids; so of two buffered requests the earlier
\* one's review is inserted first.
C27_Fifo ==
    [][/\ Increasing(batch \o reviewQueue)
       /\ Increasing([i \in 1..Len(store) |-> store[i]._id])
       /\ \A r \in Slots :
            (post[r].pc = "idle" /\ post'[r].pc = "waiting")
                => /\ reviewQueue' = Append(reviewQueue, r)
                   /\ \A i \in 1..Len(batch \o reviewQueue) :
                         (batch \o reviewQueue)[i] < r
       /\ FlushWrites =>
            /\ Len(store') <= Len(store) + Len(batch)
            /\ SubSeq(store', 1, Len(store)) = store
            /\ \A i \in 1..(Len(store') - Len(store)) :
                  Holds(store'[Len(store) + i], Val(post[batch[i]].body),
                        nextId + i - 1)
      ]_vars

\* a request enqueued while a flush was running was inserted by a later batch
\* than the request buffered just before it, and its record follows that one's
C27_Witness ==
    /\ ~insertFailed
    /\ Len(store) > BATCH_SIZE
    /\ \E r \in Late :
          /\ r - 1 \in Slots \ Late
          /\ Succeeded(r) /\ post[r].via = "waiting"
          /\ Succeeded(r - 1)
          /\ Val(Val(post[r - 1].resp).reviewId) = BATCH_SIZE + 1
          /\ \E i \in (BATCH_SIZE + 1)..(Len(store) - 1) :
                /\ store[i]._id = Val(Val(post[r - 1].resp).reviewId)
                /\ store[i + 1]._id = Val(Val(post[r].resp).reviewId)

\* -------------------------------------------------- at most once (C28)
\* C28: the answer a request got from its callback never changes; a callback
\* is invoked only for a request still waiting, which the step takes out of
\* the buffer and the batch; and an answered request is in neither, so no later
\* batch or failure reaches it again.
C28_CallbackAtMostOnce ==
    [][\A r \in Slots :
          /\ (post[r].pc = "done") => (post'[r] = post[r])
          /\ (post[r].pc = "done")
                => r \notin Range(reviewQueue) \cup Range(batch)
          /\ (post[r].pc = "waiting")
                => Cardinality({ i \in 1..Len(batch \o reviewQueue) :
                                    (batch \o reviewQueue)[i] = r }) <= 1
          /\ (post[r].pc = "waiting" /\ post'[r].pc # "waiting")
                => /\ post'[r].pc = "done"
                   /\ r \notin Range(reviewQueue') \cup Range(batch')
      ]_vars

\* a flush that failed has answered, with a failure, a request buffered from
\* the start and one enqueued during the flush, and the process has gone on to
\* write a later submission directly
C28_Witness ==
    /\ insertFailed
    /\ ~processingQueue /\ reviewQueue = << >> /\ batch = << >>
    /\ \E r \in Slots \ Late, q \in Late :
          /\ post[r].pc = "done" /\ post[r].via = "waiting"
          /\ Val(post[r].resp).success = Some(FALSE)
          /\ post[q].pc = "done" /\ post[q].via = "waiting"
          /\ Val(post[q].resp).success = Some(FALSE)
          /\ Val(post[q].resp).reviewId = None
    /\ \E q \in Late : Succeeded(q) /\ post[q].via = "inserting"

\* ------------------------------------------- cache replacement (C29)
\* the collection s is an older state than t: t is not s, and has every record
\* of s, every soft-deleted one still soft-deleted and deleted no earlier
Older(s, t) ==
    /\ s # t
    /\ Len(s) <= Len(t)
    /\ \A i \in 1..Len(s) :
          /\ s[i]._id = t[i]._id
          /\ (s[i].isActive = Some(FALSE))
                => /\ t[i].isActive = Some(FALSE)
                   /\ Val(s[i].deletedAt) <= Val(t[i].deletedAt)

\* C29: when a read replaces the cache entry of its key, the data it writes
\* was not computed from an older state of the store than the data replaced.
C29_CacheMovesForward ==
    [][\A g \in DOMAIN reads :
          LET key == cacheKey(reads[g].station)
          IN (ReadComplete(g) /\ cache[key] # None /\ cache'[key] # cache[key])
                => ~Older(Val(cache'[key]).computedFrom,
                          Val(cache[key]).computedFrom)
      ]_vars

\* ------------------------------------------- irreversibility (C30)
SoftDeleted(s) == { s[i]._id : i \in Inactive(s) }

\* C30: a step that is not a bulk clear keeps every soft-deleted record in the
\* store, at its place and soft-deleted, and gives no new record the id of one;
\* a bulk clear removes every record.
C30_SoftDeleteIrreversible ==
    [][IF \E m \in Methods : ClearReviews(m) /\ Val(clearResp').status = 200
       THEN store' = << >>
       ELSE /\ SoftDeleted(store) \subseteq SoftDeleted(store')
            /\ \A i \in Inactive(store) :
                  /\ i <= Len(store')
                  /\ store'[i]._id = store[i]._id
                  /\ store'[i].isActive = Some(FALSE)
            /\ \A i \in 1..Len(store') :
                  store'[i]._id \in SoftDeleted(store)
                      => (i \in Inactive(store) /\ i \in Inactive(store'))
      ]_vars

\* a review was soft-deleted and is still soft-deleted after a flush stored
\* the buffered reviews and a later submission was written directly beside it
C30_Witness ==
    /\ delResp.status = 200
    /\ \E i \in Inactive(store) :
          /\ store[i]._id = Val(delResp.id)
          /\ \E j, k \in (i + 1)..Len(store), r, q \in Slots :
                /\ store[j].isActive = Some(TRUE)
                /\ Succeeded(r) /\ post[r].via = "waiting"
                /\ Val(post[r].resp).reviewId = Some(store[j]._id)
                /\ Succeeded(q) /\ post[q].via = "inserting"
                /\ Val(post[q].resp).reviewId = Some(store[k]._id)
====
